---------------------------- MODULE Spec2Model ----------------------------
(***************************************************************************)
(* A model of the Slider widget of src/widget/slider.rs: the per-frame     *)
(* reconciliation done by Slider::update (interaction, value, reaction,    *)
(* persisted-state replacement) and the fill rectangle of Slider::draw.    *)
(*                                                                         *)
(* Numbers.  The widget is generic over a Float T; the model takes T = f32 *)
(* and keeps the f64 of the geometry.  A float is a record                 *)
(*     [k |-> "fin", n |-> numerator, d |-> denominator]   (lowest terms)  *)
(*     [k |-> "inf", n |-> 1 or -1,   d |-> 1]                             *)
(*     [k |-> "nan", n |-> 0,         d |-> 1]                             *)
(* An f32 operation is the exact rational operation followed by Round24,   *)
(* the IEEE-754 round-to-nearest-even to a 24 bit significand.  The f64    *)
(* operations of the geometry are exact on the operands of this model      *)
(* (small integers and 24 bit percentages: a product has at most 31 bits;  *)
(* where a quotient is not exact its f64 error, 2^-53 relative, is far     *)
(* from every f32 rounding boundary of a quotient of such operands, so the *)
(* `as f32` cast of the f64 result is Round24 of the exact result).        *)
(* Signed zeros are not kept apart: no quotient of the widget reads the    *)
(* sign of a zero (0/0 is NaN for either sign).                            *)
(***************************************************************************)
EXTENDS Integers, Sequences, FiniteSets, TLC

---------------------------------------------------------------------------
(* Option<T>: None is the empty sequence, Some(x) the one-element one.     *)
None == <<>>
Some(x) == <<x>>
IsSome(o) == o # <<>>
Unwrap(o) == o[1]
UnwrapOr(o, dflt) == IF o = <<>> THEN dflt ELSE o[1]
\* Option::or
OptOr(o, other) == IF o = <<>> THEN other ELSE o

---------------------------------------------------------------------------
(* Floats.                                                                 *)
Abs(i) == IF i < 0 THEN -i ELSE i
Sign(i) == IF i < 0 THEN -1 ELSE IF i > 0 THEN 1 ELSE 0

RECURSIVE Gcd(_, _)
Gcd(a, b) == IF b = 0 THEN a ELSE Gcd(b, a % b)

Pow2(k) == 2 ^ k
\* The significands of an f32 are the integers of [2^23, 2^24).
MinSignificand == 2 ^ 23
MaxSignificand == 2 ^ 24

NaN == [k |-> "nan", n |-> 0, d |-> 1]
Inf(s) == [k |-> "inf", n |-> s, d |-> 1]
\* The rational n/d (d # 0) in lowest terms with a positive denominator.
Fin(n, d) ==
    LET g == Gcd(Abs(n), Abs(d))
        s == IF d < 0 THEN -1 ELSE 1
    IN  [k |-> "fin", n |-> s * (n \div g), d |-> s * (d \div g)]
Int2F(i) == [k |-> "fin", n |-> i, d |-> 1]
Zero == Int2F(0)

IsNaN(a) == a.k = "nan"
IsInf(a) == a.k = "inf"
IsFin(a) == a.k = "fin"
FSign(a) == Sign(a.n)

FNeg(a) == [a EXCEPT !.n = -a.n]

FAdd(a, b) ==
    IF IsNaN(a) \/ IsNaN(b) THEN NaN
    ELSE IF IsInf(a) /\ IsInf(b) THEN (IF a.n = b.n THEN a ELSE NaN)
    ELSE IF IsInf(a) THEN a
    ELSE IF IsInf(b) THEN b
    ELSE LET g == Gcd(a.d, b.d)
         IN  Fin(a.n * (b.d \div g) + b.n * (a.d \div g), (a.d \div g) * b.d)

FSub(a, b) == FAdd(a, FNeg(b))

FMul(a, b) ==
    IF IsNaN(a) \/ IsNaN(b) THEN NaN
    ELSE IF IsInf(a) \/ IsInf(b)
         THEN (IF FSign(a) = 0 \/ FSign(b) = 0 THEN NaN
               ELSE Inf(FSign(a) * FSign(b)))
    ELSE LET g1 == Gcd(Abs(a.n), b.d)
             g2 == Gcd(Abs(b.n), a.d)
         IN  Fin((a.n \div g1) * (b.n \div g2), (a.d \div g2) * (b.d \div g1))

FDiv(a, b) ==
    IF IsNaN(a) \/ IsNaN(b) THEN NaN
    ELSE IF IsInf(a)
         THEN (IF IsInf(b) THEN NaN
               ELSE Inf(a.n * (IF FSign(b) < 0 THEN -1 ELSE 1)))
    ELSE IF IsInf(b) THEN Zero
    ELSE IF b.n = 0
         THEN (IF a.n = 0 THEN NaN ELSE Inf(FSign(a)))
    ELSE FMul(a, Fin(b.d, b.n))

\* The comparisons of IEEE-754: every comparison with a NaN is false,
\* except !=, which is true.
FLt(a, b) ==
    IF IsNaN(a) \/ IsNaN(b) THEN FALSE
    ELSE IF IsInf(a) THEN a.n < 0 /\ a # b
    ELSE IF IsInf(b) THEN b.n > 0
    ELSE a.n * b.d < b.n * a.d
FGt(a, b) == FLt(b, a)
FEq(a, b) == ~IsNaN(a) /\ ~IsNaN(b) /\ a = b
FNe(a, b) == ~FEq(a, b)
FLe(a, b) == FLt(a, b) \/ FEq(a, b)

\* n/d (n, d > 0) to the nearest integer, ties to even.
RoundHalfEven(n, d) ==
    LET q == n \div d
        r == n % d
    IN  IF 2 * r < d THEN q
        ELSE IF 2 * r > d THEN q + 1
        ELSE IF q % 2 = 0 THEN q ELSE q + 1

\* (n/d) * 2^e for n, d > 0, rounded to a significand of 24 bits.
RECURSIVE Scale24(_, _, _)
Scale24(n, d, e) ==
    IF n \div d >= MaxSignificand THEN Scale24(n, 2 * d, e + 1)
    ELSE IF n \div d < MinSignificand
         THEN (IF d % 2 = 0 THEN Scale24(n, d \div 2, e - 1)
               ELSE Scale24(2 * n, d, e - 1))
    ELSE LET m == RoundHalfEven(n, d)
         IN  IF e >= 0 THEN Fin(m * Pow2(e), 1) ELSE Fin(m, Pow2(-e))

\* n / d with |n| < 2^24 and d a power of two is an f32 as it stands.
IsF32(a) == Abs(a.n) < MaxSignificand /\ \E j \in 0 .. 30 : a.d = 2 ^ j

\* The cast `as f32` (and the rounding of every f32 operation).
Round24(a) ==
    IF ~IsFin(a) \/ IsF32(a) THEN a
    ELSE LET r == Scale24(Abs(a.n), a.d, 0)
         IN  IF a.n < 0 THEN FNeg(r) ELSE r

F32Sub(a, b) == Round24(FSub(a, b))
F32Add(a, b) == Round24(FAdd(a, b))
F32Mul(a, b) == Round24(FMul(a, b))
F32Div(a, b) == Round24(FDiv(a, b))

---------------------------------------------------------------------------
(* The helpers of utils.rs that slider.rs uses (lines 12 and 151).         *)

\* utils::clamp: n held between start and end; a NaN, for which every
\* comparison is false, passes through.
clamp(n, start, end) ==
    IF FLt(n, start) THEN start ELSE IF FGt(n, end) THEN end ELSE n

\* utils::percentage: where value lies between min and max, as an f32.
percentage(value, min, max) ==
    F32Div(F32Sub(Round24(value), Round24(min)),
           F32Sub(Round24(max), Round24(min)))

\* utils::value_from_perc: the value at an f32 percentage of [min, max].
value_from_perc(perc, min, max) ==
    LET f == Round24(FSub(max, min))
        v == F32Mul(f, perc)
    IN  F32Add(v, min)

\* utils::map_range: val moved linearly from [in_min, in_max] to
\* [out_min, out_max], in f64.
map_range(val, in_min, in_max, out_min, out_max) ==
    FAdd(FMul(FDiv(FSub(val, in_min), FSub(in_max, in_min)),
              FSub(out_max, out_min)),
         out_min)

\* utils::is_over_rect: the point is inside the rectangle of the given
\* dimensions centred at rect_xy.
is_over_rect(rect_xy, mouse_xy, dim) ==
    /\ 2 * (mouse_xy[1] - rect_xy[1]) > -dim[1]
    /\ 2 * (mouse_xy[1] - rect_xy[1]) < dim[1]
    /\ 2 * (mouse_xy[2] - rect_xy[2]) > -dim[2]
    /\ 2 * (mouse_xy[2] - rect_xy[2]) < dim[2]

---------------------------------------------------------------------------
(* Bounds of the model and constants of the program.                       *)

\* Slider::new: dim: [192.0, 48.0].
DefaultWidth == 192
DefaultHeight == 48
\* Slider::new: depth: 0.0.
DefaultDepth == 0
\* The theme's global frame width and medium font size.
ThemeFrameWidth == 1
ThemeFontSizeMedium == 18
\* The frame width the caller's frame(width) sets.
ThickFrame == 2
\* The pointer's coordinate when it is far outside the widget.
FarCoord == 100

\* What the caller's width(w) and height(h) set: a dimension that the thick
\* frame fills entirely (interior length zero).
NarrowDim == 2 * ThickFrame

\* (value, min, max) of the Slider::new calls: a value in range that the
\* f32 round trip keeps, one above max, one in range that the round trip
\* does not keep, and a range of length zero.
Configs == { <<2, 0, 4>>, <<5, 0, 4>>, <<7, 0, 13>>, <<2, 2, 2>> }
Labels == { "a" }
\* A pointer position a quarter of the way along the default width and
\* three quarters of the way up the default height, inside the thick frame
\* (interior 188 x 44): (-188/4, 44/4).
QuarterPoint ==
    << -((DefaultWidth - 2 * ThickFrame) \div 4),
       (DefaultHeight - 2 * ThickFrame) \div 4 >>
\* Pointer positions relative to the widget's centre: one inside every
\* rectangle of the model, one beyond the right/top end, one beyond the
\* left/bottom end, and the quarter point.
Points == { <<-1, 1>>, <<FarCoord, FarCoord>>, <<-FarCoord, -FarCoord>>,
            QuarterPoint }
ButtonStates == { "Up", "Down" }
Interactions == { "Normal", "Highlighted", "Clicked" }


\* Style::new
StyleNew ==
    [ maybe_color           |-> None,
      maybe_frame           |-> None,
      maybe_frame_color     |-> None,
      maybe_label_color     |-> None,
      maybe_label_font_size |-> None ]

\* The theme of the Ui with the given slider-specific style (an Option).
ThemeWith(maybe_slider) ==
    [ shape_color      |-> "theme_shape_color",
      frame_color      |-> "theme_frame_color",
      frame_width      |-> ThemeFrameWidth,
      label_color      |-> "theme_label_color",
      font_size_medium |-> ThemeFontSizeMedium,
      align            |-> [horizontal |-> "Left", vertical |-> "Top"],
      maybe_slider     |-> maybe_slider ]

\* The theme of the Ui in the widget's frames: no slider-specific style.
Theme == ThemeWith(None)

\* What the caller's style and position setters set.
SetColor == "red"
SetFrameColor == "black"
SetLabelColor == "white"
SetFontSize == ThemeFontSizeMedium + ThickFrame
SetHAlign == "Right"
SetVAlign == "Bottom"
DefaultPosition == "Position::default()"
SetPosition == "Position::Absolute"

---------------------------------------------------------------------------
(* The widget.                                                             *)

VARIABLES
    slider,           \* the frame's Slider (the builder update consumes)
    mouse,            \* ui.get_mouse_state(ui_id).relative_to(xy)
    last_left,        \* the left button as the previous frame read it
    state,            \* Option<State>: the widget cache's persisted State
    pc,               \* "build", "updated" (update has returned), "drawn"
    prev_state,       \* Option<State>: the State update was handed
    new_interaction,  \* update's new_interaction
    new_value,        \* update's new_value
    reacted,          \* the arguments of this frame's calls of react
    maybe_new_state,  \* the state field of what update returned
    returned,         \* Option: the dim, xy and depth update returned
    element,          \* Option: the fill rectangle draw built
    resolution        \* a Style, a Theme and what Style's getters returned

vars == << slider, mouse, last_left, state, pc, prev_state, new_interaction,
           new_value, reacted, maybe_new_state, returned, element,
           resolution >>

\* Slider::new
SliderNew(value, min, max) ==
    [ value       |-> value,
      min         |-> min,
      max         |-> max,
      pos         |-> DefaultPosition,
      maybe_h_align |-> None,
      maybe_v_align |-> None,
      dim         |-> << DefaultWidth, DefaultHeight >>,
      depth       |-> DefaultDepth,
      maybe_react |-> None,
      maybe_label |-> None,
      style       |-> StyleNew,
      enabled     |-> TRUE ]

\* Widget::init_state
init_state(self) ==
    [ value       |-> self.value,
      min         |-> self.min,
      max         |-> self.max,
      maybe_label |-> None,
      interaction |-> "Normal" ]

\* Mutant: the theme's slider style is not consulted for the frame width.
StyleFrame_skips_slider_style(style, theme) ==
    UnwrapOr(style.maybe_frame, theme.frame_width)

\* Style::frame
StyleFrame(style, theme) ==
    UnwrapOr(OptOr(style.maybe_frame,
                   IF IsSome(theme.maybe_slider)
                   THEN Some(UnwrapOr(Unwrap(theme.maybe_slider).maybe_frame,
                                      theme.frame_width))
                   ELSE None),
             theme.frame_width)

\* Style::color
StyleColor(style, theme) ==
    UnwrapOr(OptOr(style.maybe_color,
                   IF IsSome(theme.maybe_slider)
                   THEN Some(UnwrapOr(Unwrap(theme.maybe_slider).maybe_color,
                                      theme.shape_color))
                   ELSE None),
             theme.shape_color)

\* Style::frame_color
StyleFrameColor(style, theme) ==
    UnwrapOr(OptOr(style.maybe_frame_color,
                   IF IsSome(theme.maybe_slider)
                   THEN Some(UnwrapOr(Unwrap(theme.maybe_slider).maybe_frame_color,
                                      theme.frame_color))
                   ELSE None),
             theme.frame_color)

\* Style::label_color
StyleLabelColor(style, theme) ==
    UnwrapOr(OptOr(style.maybe_label_color,
                   IF IsSome(theme.maybe_slider)
                   THEN Some(UnwrapOr(Unwrap(theme.maybe_slider).maybe_label_color,
                                      theme.label_color))
                   ELSE None),
             theme.label_color)

\* Style::label_font_size
StyleLabelFontSize(style, theme) ==
    UnwrapOr(OptOr(style.maybe_label_font_size,
                   IF IsSome(theme.maybe_slider)
                   THEN Some(UnwrapOr(Unwrap(theme.maybe_slider).maybe_label_font_size,
                                      theme.font_size_medium))
                   ELSE None),
             theme.font_size_medium)

\* update and draw: frame
FrameOf(self) == StyleFrame(self.style, Theme)

\* Mutant: a press over a Normal slider clicks it at once.
get_new_interaction_no_delay(is_over, prev, left) ==
    IF is_over /\ left = "Down" THEN "Clicked"
    ELSE IF is_over /\ left = "Up" THEN "Highlighted"
    ELSE IF ~is_over /\ prev = "Clicked" /\ left = "Down" THEN "Clicked"
    ELSE "Normal"

\* Mutant: a Clicked slider stays Clicked when the button is released over it.
get_new_interaction_sticky(is_over, prev, left) ==
    IF is_over /\ prev = "Normal" /\ left = "Down" THEN "Normal"
    ELSE IF is_over /\ (left = "Down" \/ prev = "Clicked") THEN "Clicked"
    ELSE IF is_over /\ left = "Up" THEN "Highlighted"
    ELSE IF ~is_over /\ prev = "Clicked" /\ left = "Down" THEN "Clicked"
    ELSE "Normal"

\* get_new_interaction: the match, first arm first.
get_new_interaction(is_over, prev, left) ==
    IF is_over /\ prev = "Normal" /\ left = "Down" THEN "Normal"
    ELSE IF is_over /\ left = "Down" THEN "Clicked"
    ELSE IF is_over /\ left = "Up" THEN "Highlighted"
    ELSE IF ~is_over /\ prev = "Clicked" /\ left = "Down" THEN "Clicked"
    ELSE "Normal"

\* update: is_over
IsOver(self, m) == is_over_rect(<<0, 0>>, m.xy, self.dim)

\* Mutant: the enabled flag is not read.
NewInteraction_ignores_enabled(self, st, m) ==
    get_new_interaction(IsOver(self, m), st.interaction, m.left)

\* update: new_interaction
NewInteraction(self, st, m) ==
    IF self.enabled
    THEN get_new_interaction(IsOver(self, m), st.interaction, m.left)
    ELSE "Normal"

\* update: (inner_w, inner_h)
InnerDim(dim, frame) ==
    LET frame_2 == FMul(Int2F(frame), Int2F(2))
    IN  << FSub(Int2F(dim[1]), frame_2), FSub(Int2F(dim[2]), frame_2) >>

\* Mutant: a square slider is horizontal.
IsHorizontal_or_square(dim) == dim[1] >= dim[2]

\* update and draw: is_horizontal
IsHorizontal(dim) == dim[1] > dim[2]

\* Mutant: only the press that starts a drag takes the pointer's coordinate.
IsDrag_press_only(is_over, prev, new) ==
    is_over /\ prev = "Highlighted" /\ new = "Clicked"

\* update: the arms of the match that take the pointer's coordinate.
IsDrag(is_over, prev, new) ==
    \/ is_over /\ prev = "Highlighted" /\ new = "Clicked"
    \/ prev = "Clicked" /\ new = "Clicked"

\* update: w (or h), the extent along the axis of length inner: from the
\* pointer's coordinate in a drag, from the value's percentage otherwise.
Extent(self, drag, coord, inner) ==
    LET half_inner == FDiv(inner, Int2F(2))
    IN  IF drag
        THEN clamp(map_range(Int2F(coord), FNeg(half_inner), half_inner,
                             Zero, inner),
                   Zero, inner)
        ELSE clamp(FMul(percentage(self.value, self.min, self.max), inner),
                   Zero, inner)

\* update: new_value
NewValue(self, st, m, frame) ==
    LET inner == InnerDim(self.dim, frame)
        drag  == IsDrag(IsOver(self, m), st.interaction,
                        NewInteraction(self, st, m))
    IN  IF IsHorizontal(self.dim)
        THEN LET w == Extent(self, drag, m.xy[1], inner[1])
             IN  value_from_perc(Round24(FDiv(w, inner[1])),
                                 self.min, self.max)
        ELSE LET h == Extent(self, drag, m.xy[2], inner[2])
             IN  value_from_perc(Round24(FDiv(h, inner[2])),
                                 self.min, self.max)

\* Mutant: a release over the slider no longer counts.
ShouldReact_no_release(self, st, new_int, new_val) ==
    \/ FNe(self.value, new_val)
    \/ st.interaction = "Highlighted" /\ new_int = "Clicked"

\* update: the condition under which react is called.
ShouldReact(self, st, new_int, new_val) ==
    \/ FNe(self.value, new_val)
    \/ st.interaction = "Highlighted" /\ new_int = "Clicked"
    \/ st.interaction = "Clicked" /\ new_int = "Highlighted"

\* update: // React.
React(self, st, new_int, new_val) ==
    IF IsSome(self.maybe_react)
    THEN (IF ShouldReact(self, st, new_int, new_val)
          THEN << new_val >> ELSE << >>)
    ELSE << >>

\* update: new_state
new_state(self, new_int) ==
    [ interaction |-> new_int,
      value       |-> self.value,
      min         |-> self.min,
      max         |-> self.max,
      maybe_label |-> self.maybe_label ]

\* Mutant: the label is not compared.
state_has_changed_no_label(self, st, new_int) ==
    \/ st.interaction # new_int
    \/ FNe(st.value, self.value)
    \/ FNe(st.min, self.min) \/ FNe(st.max, self.max)

\* update: state_has_changed
state_has_changed(self, st, new_int) ==
    \/ st.interaction # new_int
    \/ FNe(st.value, self.value)
    \/ FNe(st.min, self.min) \/ FNe(st.max, self.max)
    \/ st.maybe_label # self.maybe_label

\* Mutant: a frame whose builder has a reaction always replaces the state.
MaybeNewState_with_reaction(self, st, new_int) ==
    IF state_has_changed(self, st, new_int) \/ IsSome(self.maybe_react)
    THEN Some(new_state(self, new_int)) ELSE None

\* update: maybe_new_state
MaybeNewState(self, st, new_int) ==
    IF state_has_changed(self, st, new_int)
    THEN Some(new_state(self, new_int)) ELSE None

\* Ui::get_xy: the layout's screen position for a requested position,
\* dimensions and alignment; the layout is not part of the widget, and the
\* position is kept as the application it is.
get_xy(pos, dim, h_align, v_align) ==
    [ pos |-> pos, dim |-> dim, h_align |-> h_align, v_align |-> v_align ]

\* Mutant: the alignment is always the theme's.
Xy_theme_align(self, theme) ==
    get_xy(self.pos, self.dim, theme.align.horizontal, theme.align.vertical)

\* update: xy
Xy(self, theme) ==
    LET h_align == UnwrapOr(self.maybe_h_align, theme.align.horizontal)
        v_align == UnwrapOr(self.maybe_v_align, theme.align.vertical)
    IN  get_xy(self.pos, self.dim, h_align, v_align)

\* update: the dim, xy and depth of the widget::State it returns.
Returned(self, theme) ==
    [ dim |-> self.dim, xy |-> Xy(self, theme), depth |-> self.depth ]

\* draw: (pad_rel_xy, pad_dim)
Pad(st, dim, frame) ==
    LET inner == InnerDim(dim, frame)
        inner_w == inner[1]
        inner_h == inner[2]
        value_percentage == percentage(st.value, st.min, st.max)
    IN  IF IsHorizontal(dim)
        THEN LET w == clamp(FMul(value_percentage, inner_w), Zero, inner_w)
             IN  [ rel_xy |-> << FDiv(FNeg(FSub(inner_w, w)), Int2F(2)), Zero >>,
                   dim    |-> << w, inner_h >> ]
        ELSE LET h == clamp(FMul(value_percentage, inner_h), Zero, inner_h)
             IN  [ rel_xy |-> << Zero, FDiv(FNeg(FSub(inner_h, h)), Int2F(2)) >>,
                   dim    |-> << inner_w, h >> ]

---------------------------------------------------------------------------
(* The operations.                                                         *)

Cleared ==
    /\ prev_state' = None
    /\ new_interaction' = "Normal"
    /\ new_value' = Zero
    /\ reacted' = << >>
    /\ maybe_new_state' = None
    /\ returned' = None
    /\ element' = None

\* The caller starts the next frame's builder: Slider::new(value, min, max).
new ==
    /\ pc \in { "updated", "drawn" }
    /\ \E c \in Configs :
          slider' = SliderNew(Int2F(c[1]), Int2F(c[2]), Int2F(c[3]))
    /\ last_left' = mouse.left
    /\ pc' = "build"
    /\ Cleared
    /\ UNCHANGED << mouse, state, resolution >>

Setter(s) ==
    /\ pc = "build"
    /\ slider' = s
    /\ UNCHANGED << mouse, last_left, state, pc, prev_state, new_interaction,
                    new_value, reacted, maybe_new_state, returned, element,
                    resolution >>

\* Slider::react
With_react(self, reaction) == [self EXCEPT !.maybe_react = Some(reaction)]

\* Slider::enabled
With_enabled(self, flag) == [self EXCEPT !.enabled = flag]

\* Colorable::color
With_color(self, c) == [self EXCEPT !.style.maybe_color = Some(c)]

\* Frameable::frame
With_frame(self, w) == [self EXCEPT !.style.maybe_frame = Some(w)]

\* Frameable::frame_color
With_frame_color(self, c) == [self EXCEPT !.style.maybe_frame_color = Some(c)]

\* Labelable::label
With_label(self, text) == [self EXCEPT !.maybe_label = Some(text)]

\* Labelable::label_color
With_label_color(self, c) == [self EXCEPT !.style.maybe_label_color = Some(c)]

\* Labelable::label_font_size
With_label_font_size(self, size) ==
    [self EXCEPT !.style.maybe_label_font_size = Some(size)]

\* Positionable::horizontal_align
With_horizontal_align(self, h_align) ==
    [self EXCEPT !.maybe_h_align = Some(h_align)]

\* Positionable::vertical_align
With_vertical_align(self, v_align) ==
    [self EXCEPT !.maybe_v_align = Some(v_align)]

\* Positionable::position
With_position(self, pos) == [self EXCEPT !.pos = pos]

\* Mutant: the width is set on a slider of the default height.
With_width_default_height(self, w) ==
    [self EXCEPT !.dim = << w, DefaultHeight >>]

\* Sizeable::width
With_width(self, w) ==
    LET h == self.dim[2]
    IN  [self EXCEPT !.dim = << w, h >>]

\* Sizeable::height
With_height(self, h) ==
    LET w == self.dim[1]
    IN  [self EXCEPT !.dim = << w, h >>]

\* A setter of the builder, by its name.
With(setter, arg, self) ==
    CASE setter = "react"            -> With_react(self, arg)
      [] setter = "enabled"          -> With_enabled(self, arg)
      [] setter = "color"            -> With_color(self, arg)
      [] setter = "frame"            -> With_frame(self, arg)
      [] setter = "frame_color"      -> With_frame_color(self, arg)
      [] setter = "label"            -> With_label(self, arg)
      [] setter = "label_color"      -> With_label_color(self, arg)
      [] setter = "label_font_size"  -> With_label_font_size(self, arg)
      [] setter = "horizontal_align" -> With_horizontal_align(self, arg)
      [] setter = "vertical_align"   -> With_vertical_align(self, arg)
      [] setter = "position"         -> With_position(self, arg)
      [] setter = "width"            -> With_width(self, arg)
      [] setter = "height"           -> With_height(self, arg)

\* Slider::react
react == Setter(With_react(slider, "reaction"))

\* Slider::enabled
enabled == \E flag \in BOOLEAN : Setter(With_enabled(slider, flag))

\* Frameable::frame
frame == Setter(With_frame(slider, ThickFrame))

\* Labelable::label
label == \E text \in Labels : Setter(With_label(slider, text))

\* Sizeable::width
width == Setter(With_width(slider, NarrowDim))

\* Sizeable::height
height == Setter(With_height(slider, NarrowDim))

\* Colorable::color
color == Setter(With_color(slider, SetColor))

\* Frameable::frame_color
frame_color == Setter(With_frame_color(slider, SetFrameColor))

\* Labelable::label_color
label_color == Setter(With_label_color(slider, SetLabelColor))

\* Labelable::label_font_size
label_font_size == Setter(With_label_font_size(slider, SetFontSize))

\* Positionable::horizontal_align
horizontal_align == Setter(With_horizontal_align(slider, SetHAlign))

\* Positionable::vertical_align
vertical_align == Setter(With_vertical_align(slider, SetVAlign))

\* Positionable::position
position == Setter(With_position(slider, SetPosition))

\* The pointer moves or its left button changes, between two frames.
mouse_input ==
    /\ pc = "build"
    /\ \E xy \in Points, left \in ButtonStates :
          mouse' = [xy |-> xy, left |-> left]
    /\ UNCHANGED << slider, last_left, state, pc, prev_state, new_interaction,
                    new_value, reacted, maybe_new_state, returned, element,
                    resolution >>

\* Widget::update, called with the cache's State (init_state() the first
\* time); the cache then keeps the replacement, if there is one.
update ==
    /\ pc = "build"
    /\ LET st      == IF IsSome(state) THEN Unwrap(state) ELSE init_state(slider)
           new_int == NewInteraction(slider, st, mouse)
           new_val == NewValue(slider, st, mouse, FrameOf(slider))
           new_st  == MaybeNewState(slider, st, new_int)
       IN  /\ prev_state' = Some(st)
           /\ new_interaction' = new_int
           /\ new_value' = new_val
           /\ reacted' = React(slider, st, new_int, new_val)
           /\ maybe_new_state' = new_st
           /\ state' = Some(UnwrapOr(new_st, st))
    /\ returned' = Some(Returned(slider, Theme))
    /\ pc' = "updated"
    /\ UNCHANGED << slider, mouse, last_left, element, resolution >>

\* Widget::draw, with the cache's State and the dimensions update returned.
draw ==
    /\ pc = "updated"
    /\ element' = Some(Pad(Unwrap(state), slider.dim, FrameOf(slider)))
    /\ pc' = "drawn"
    /\ UNCHANGED << slider, mouse, last_left, state, prev_state,
                    new_interaction, new_value, reacted, maybe_new_state,
                    returned, resolution >>

\* Nothing resolved yet of a Style against a Theme.
Unresolved(style, theme) ==
    [ style |-> style, theme |-> theme,
      color |-> None, frame |-> None, frame_color |-> None,
      label_color |-> None, label_font_size |-> None ]

\* The first frame's builder, before the widget's first update.
InitWidget ==
    /\ \E c \in Configs :
          slider = SliderNew(Int2F(c[1]), Int2F(c[2]), Int2F(c[3]))
    /\ mouse = [xy |-> << FarCoord, FarCoord >>, left |-> "Up"]
    /\ last_left = "Up"
    /\ state = None
    /\ pc = "build"
    /\ prev_state = None
    /\ new_interaction = "Normal"
    /\ new_value = Zero
    /\ reacted = << >>
    /\ maybe_new_state = None
    /\ returned = None
    /\ element = None

Init == InitWidget /\ resolution = Unresolved(StyleNew, Theme)

Next ==
    \/ new
    \/ react
    \/ enabled
    \/ frame
    \/ label
    \/ width
    \/ height
    \/ mouse_input
    \/ update
    \/ draw

Spec == Init /\ [][Next]_vars

---------------------------------------------------------------------------
(* The style getters on their own: every Style against every Theme.        *)

\* What a theme's slider style sets.
SliderThemeFrame == ThickFrame + ThemeFrameWidth
SliderThemeFontSize == ThemeFontSizeMedium + 2 * ThickFrame

\* Every Style a builder's setters make.
Styles ==
    [ maybe_color           : { None, Some(SetColor) },
      maybe_frame           : { None, Some(ThickFrame) },
      maybe_frame_color     : { None, Some(SetFrameColor) },
      maybe_label_color     : { None, Some(SetLabelColor) },
      maybe_label_font_size : { None, Some(SetFontSize) } ]

\* Every slider style of a theme.
SliderThemeStyles ==
    [ maybe_color           : { None, Some("slider_color") },
      maybe_frame           : { None, Some(SliderThemeFrame) },
      maybe_frame_color     : { None, Some("slider_frame_color") },
      maybe_label_color     : { None, Some("slider_label_color") },
      maybe_label_font_size : { None, Some(SliderThemeFontSize) } ]

\* The themes: without a slider style, and with each of them.
Themes == { ThemeWith(None) } \cup { ThemeWith(Some(st)) : st \in SliderThemeStyles }

widget_vars == << slider, mouse, last_left, state, pc, prev_state,
                  new_interaction, new_value, reacted, maybe_new_state,
                  returned, element >>

\* One getter of Style is called and its result kept.
Resolve(attr, result) ==
    /\ resolution[attr] = None
    /\ resolution' = [resolution EXCEPT ![attr] = Some(result)]
    /\ UNCHANGED widget_vars

\* Style::color
style_color ==
    Resolve("color", StyleColor(resolution.style, resolution.theme))

\* Style::frame
style_frame ==
    Resolve("frame", StyleFrame(resolution.style, resolution.theme))

\* Style::frame_color
style_frame_color ==
    Resolve("frame_color", StyleFrameColor(resolution.style, resolution.theme))

\* Style::label_color
style_label_color ==
    Resolve("label_color", StyleLabelColor(resolution.style, resolution.theme))

\* Style::label_font_size
style_label_font_size ==
    Resolve("label_font_size",
            StyleLabelFontSize(resolution.style, resolution.theme))

InitStyle ==
    /\ InitWidget
    /\ \E style \in Styles, theme \in Themes :
          resolution = Unresolved(style, theme)

NextStyle ==
    \/ style_color
    \/ style_frame
    \/ style_frame_color
    \/ style_label_color
    \/ style_label_font_size

SpecStyle == InitStyle /\ [][NextStyle]_vars

---------------------------------------------------------------------------
(* The builder on its own: every setter, in every order.                   *)

NextBuilder ==
    \/ react
    \/ enabled
    \/ color
    \/ frame
    \/ frame_color
    \/ label
    \/ label_color
    \/ label_font_size
    \/ horizontal_align
    \/ vertical_align
    \/ position
    \/ width
    \/ height

SpecBuilder == Init /\ [][NextBuilder]_vars

---------------------------------------------------------------------------
(* The frames of a slider that is laid out: position, alignment and size   *)
(* are set, the pointer stays away.                                        *)

NextLayout ==
    \/ new
    \/ position
    \/ horizontal_align
    \/ vertical_align
    \/ width
    \/ height
    \/ label
    \/ update

SpecLayout == Init /\ [][NextLayout]_vars
---------------------------------------------------------------------------
(* The claims.  A frame's facts are read in the states where update has    *)
(* returned (pc is "updated" or "drawn"): slider and mouse are what update *)
(* read, prev_state the State it was handed, last_left the button as the   *)
(* frame before read it.                                                   *)

Updated == pc # "build"
Prev == Unwrap(prev_state)
Over == IsOver(slider, mouse)
Drag == IsDrag(Over, Prev.interaction, new_interaction)
\* The interior length along the orientation axis.
InnerLength ==
    LET inner == InnerDim(slider.dim, FrameOf(slider))
    IN  IF IsHorizontal(slider.dim) THEN inner[1] ELSE inner[2]
\* The pointer's coordinate along the orientation axis.
AxisCoord == IF IsHorizontal(slider.dim) THEN mouse.xy[1] ELSE mouse.xy[2]
MouseStates == [xy : Points, left : ButtonStates]

\* The table of section 4.1.
Table(over, prev, left) ==
    CASE over /\ prev = "Normal" /\ left = "Down" -> "Normal"
      [] over /\ prev \in { "Highlighted", "Clicked" } /\ left = "Down" -> "Clicked"
      [] over /\ left = "Up" -> "Highlighted"
      [] ~over /\ prev = "Clicked" /\ left = "Down" -> "Clicked"
      [] OTHER -> "Normal"

\* C1: in every frame of an enabled slider the new interaction is the
\* table's result for (is_over, previous interaction, left button).
C1_InteractionTable ==
    (Updated /\ slider.enabled)
        => new_interaction = Table(Over, Prev.interaction, mouse.left)

\* C1 witness: the pointer is dragged off a Clicked slider, which stays
\* Clicked.
C1_Witness ==
    /\ Updated /\ slider.enabled
    /\ ~Over /\ Prev.interaction = "Clicked" /\ mouse.left = "Down"
    /\ new_interaction = "Clicked"

C3_ReleaseOverReacts ==
    ( /\ Updated /\ slider.enabled /\ IsSome(slider.maybe_react)
      /\ last_left = "Down" /\ mouse.left = "Up" /\ Over )
        => reacted # << >>

\* C4: a disabled slider's frame yields Normal, its new value is the same
\* for every pointer state and persisted interaction, and a replacement
\* State stores the config's value.
C4_DisabledIgnoresPointer ==
    (pc = "updated" /\ ~slider.enabled)
        => /\ new_interaction = "Normal"
           /\ \A m \in MouseStates, i \in Interactions :
                 NewValue(slider, [Prev EXCEPT !.interaction = i], m,
                          FrameOf(slider)) = new_value
           /\ IsSome(maybe_new_state)
                 => Unwrap(maybe_new_state).value = slider.value

\* C4 witness: a slider disabled in the middle of a drag, the button still
\* Down over it: its State is replaced and holds the config's value.
C4_Witness ==
    /\ Updated /\ ~slider.enabled
    /\ Prev.interaction = "Clicked" /\ mouse.left = "Down" /\ Over
    /\ new_interaction = "Normal"
    /\ IsSome(maybe_new_state)
    /\ Unwrap(maybe_new_state).value = slider.value

\* C5: update returns a replacement State exactly when the new interaction,
\* or the config's value, min, max or label differs from the State it was
\* handed.
C5_ReplacementIffChanged ==
    Updated
        => ( IsSome(maybe_new_state)
             <=> \/ new_interaction # Prev.interaction
                 \/ slider.value # Prev.value
                 \/ slider.min # Prev.min
                 \/ slider.max # Prev.max
                 \/ slider.maybe_label # Prev.maybe_label )

\* C5 witness: all five are equal and no replacement is returned, in a
\* frame whose computation ran as far as calling react.
C5_Witness ==
    /\ Updated
    /\ maybe_new_state = None
    /\ new_interaction = Prev.interaction
    /\ slider.value = Prev.value /\ slider.min = Prev.min
    /\ slider.max = Prev.max /\ slider.maybe_label = Prev.maybe_label
    /\ reacted # << >>

\* C6: a frame that yields Clicked has the button Down and was handed
\* Clicked, or Highlighted with the pointer over the slider.
C6_ClickedOnlyWhileHeld ==
    (Updated /\ new_interaction = "Clicked")
        => /\ mouse.left = "Down"
           /\ \/ Prev.interaction = "Clicked"
              \/ Prev.interaction = "Highlighted" /\ Over

\* C6 witness: a press over a Highlighted slider.
C6_Witness ==
    /\ Updated /\ new_interaction = "Clicked"
    /\ Prev.interaction = "Highlighted" /\ Over /\ mouse.left = "Down"

\* C7: an enabled slider handed Clicked stays Clicked while the button is
\* Down, pointer inside or outside, its new value is then taken from the
\* pointer alone (the same for every config value), a pointer beyond the
\* far end giving max and one beyond the near end min; with the button Up
\* it is no longer Clicked.
C7_ClickedPersists ==
    (Updated /\ slider.enabled /\ Prev.interaction = "Clicked")
        => IF mouse.left = "Down"
           THEN /\ new_interaction = "Clicked"
                /\ \A c \in Configs :
                      NewValue([slider EXCEPT !.value = Int2F(c[1])], Prev,
                               mouse, FrameOf(slider)) = new_value
                /\ mouse.xy = << FarCoord, FarCoord >>
                      => FEq(new_value, slider.max)
                /\ mouse.xy = << -FarCoord, -FarCoord >>
                      => FEq(new_value, slider.min)
           ELSE new_interaction # "Clicked"

\* C8: whatever the dimensions and the frame width, no NaN and no infinity
\* reaches the new value, react or the fill rectangle (stated for
\* min < max, where the range itself gives no division by zero).
C8_NoUndefinedValue ==
    (Updated /\ FLt(slider.min, slider.max))
        => /\ IsFin(new_value)
           /\ \A i \in 1 .. Len(reacted) : IsFin(reacted[i])
           /\ IsSome(element)
                 => LET pad == Unwrap(element)
                    IN  /\ IsFin(pad.rel_xy[1]) /\ IsFin(pad.rel_xy[2])
                        /\ IsFin(pad.dim[1]) /\ IsFin(pad.dim[2])

\* C9: with min <= value <= max (min < max), a positive interior length and
\* no drag, the new value equals the config's value.
C9_RoundTrip ==
    ( /\ Updated /\ ~Drag
      /\ FLt(slider.min, slider.max)
      /\ FLe(slider.min, slider.value) /\ FLe(slider.value, slider.max)
      /\ FGt(InnerLength, Zero) )
        => FEq(new_value, slider.value)

\* C10: with a positive interior length the new value lies in [min, max].
C10_ValueInRange ==
    (Updated /\ FGt(InnerLength, Zero))
        => FLe(slider.min, new_value) /\ FLe(new_value, slider.max)


---------------------------------------------------------------------------
(* The value of a drag.                                                    *)

\* The frame is one of an active drag, as the specification words it: the
\* press over a Highlighted slider, or a Clicked slider that stays Clicked.
ActiveDrag ==
    /\ Updated
    /\ \/ Over /\ Prev.interaction = "Highlighted" /\ new_interaction = "Clicked"
       \/ Prev.interaction = "Clicked" /\ new_interaction = "Clicked"

\* The pointer's fraction of the interior along the axis, as a real number.
PointerFraction ==
    FDiv(FAdd(Int2F(AxisCoord), FDiv(InnerLength, Int2F(2))), InnerLength)

\* The pointer is on the interior: its fraction is between 0 and 1.
PointerOnInterior ==
    /\ FGt(InnerLength, Zero)
    /\ FLe(Zero, PointerFraction) /\ FLe(PointerFraction, Int2F(1))

\* min + p * (max - min), as a real number.
LinearMap ==
    FAdd(slider.min, FMul(PointerFraction, FSub(slider.max, slider.min)))

\* |a - b|
Distance(a, b) == LET diff == FSub(a, b) IN IF FLt(diff, Zero) THEN FNeg(diff) ELSE diff

---------------------------------------------------------------------------
(* The orientation.                                                        *)

\* The orientation the specification gives the current dimensions.
WiderThanTall == slider.dim[1] > slider.dim[2]

\* The interior length along the axis of that orientation.
AxisInterior ==
    InnerDim(slider.dim, FrameOf(slider))[IF WiderThanTall THEN 1 ELSE 2]

\* The coordinates the pointer takes in the model.
Coords == { pt[1] : pt \in Points } \cup { pt[2] : pt \in Points }

\* The pointer with its coordinate along the axis replaced by c.
AlongAxis(c) ==
    [ mouse EXCEPT !.xy = IF WiderThanTall THEN << c, mouse.xy[2] >>
                                           ELSE << mouse.xy[1], c >> ]

\* The pointer with its coordinate across the axis replaced by c.
AcrossAxis(c) ==
    [ mouse EXCEPT !.xy = IF WiderThanTall THEN << mouse.xy[1], c >>
                                           ELSE << c, mouse.xy[2] >> ]

\* C12: update and draw take the slider for horizontal exactly when its
\* current width is greater than its height (equal is vertical), whatever
\* the persisted state. In a frame that continues a drag the new value does
\* not depend on the pointer's coordinate across that axis, and over a
\* positive interior it is min at the low end of the axis and max at the
\* high end; the rectangle draw builds spans the whole interior across the
\* axis and is centred there.
C12_OrientationFromDims ==
    /\ (pc = "updated" /\ slider.enabled /\ Prev.interaction = "Clicked"
            /\ mouse.left = "Down") =>
          /\ \A c \in Coords :
                NewValue(slider, Prev, AcrossAxis(c), FrameOf(slider)) = new_value
          /\ FGt(AxisInterior, Zero) =>
                /\ FEq(NewValue(slider, Prev, AlongAxis(-FarCoord),
                                FrameOf(slider)), slider.min)
                /\ FEq(NewValue(slider, Prev, AlongAxis(FarCoord),
                                FrameOf(slider)), slider.max)
    /\ IsSome(element) =>
          LET pad   == Unwrap(element)
              inner == InnerDim(slider.dim, FrameOf(slider))
              cross == IF WiderThanTall THEN 2 ELSE 1
          IN  pad.dim[cross] = inner[cross] /\ pad.rel_xy[cross] = Zero

\* A slider of value 2 in [0, 4] that is dragged while it is taller than
\* wide, the pointer a quarter of the way along x and three quarters of the
\* way up y: the new value is 3.
C12_Witness ==
    /\ pc = "updated" /\ ~WiderThanTall
    /\ Prev.interaction = "Clicked" /\ new_interaction = "Clicked"
    /\ mouse.xy = QuarterPoint
    /\ slider.value = Int2F(2) /\ slider.min = Zero /\ slider.max = Int2F(4)
    /\ FrameOf(slider) = ThickFrame
    /\ new_value = Int2F(3)

---------------------------------------------------------------------------
(* The style.                                                              *)

\* The three levels of the specification for one attribute: the instance's
\* override, else the theme's slider style's value when the theme has a
\* slider style that sets it, else the theme's global default.
ThreeLevels(maybe_own, maybe_slider, attr, default) ==
    IF IsSome(maybe_own) THEN Unwrap(maybe_own)
    ELSE IF IsSome(maybe_slider) /\ IsSome(Unwrap(maybe_slider)[attr])
         THEN Unwrap(Unwrap(maybe_slider)[attr])
    ELSE default

\* What a getter returned is the three levels of its own attribute.
Resolved(result, attr, default) ==
    IsSome(resolution[result]) =>
        Unwrap(resolution[result]) =
            ThreeLevels(resolution.style[attr], resolution.theme.maybe_slider,
                        attr, default)

\* C13: each of the five style attributes resolves on its own: the
\* instance's override when set, else the theme's slider-specific value when
\* the theme has a slider style and that attribute is set in it, else the
\* theme's global default (shape color, frame width, frame color, label
\* color, medium font size).
C13_StyleResolution ==
    /\ Resolved("color", "maybe_color", resolution.theme.shape_color)
    /\ Resolved("frame", "maybe_frame", resolution.theme.frame_width)
    /\ Resolved("frame_color", "maybe_frame_color", resolution.theme.frame_color)
    /\ Resolved("label_color", "maybe_label_color", resolution.theme.label_color)
    /\ Resolved("label_font_size", "maybe_label_font_size",
                resolution.theme.font_size_medium)

\* All three levels in one resolution: the instance's color wins over the
\* theme's slider color, the frame width is the theme's slider style's, and
\* the frame color, which the theme's slider style leaves unset, is the
\* theme's global one.
C13_Witness ==
    /\ IsSome(resolution.theme.maybe_slider)
    /\ IsSome(Unwrap(resolution.theme.maybe_slider).maybe_color)
    /\ resolution.color = Some(SetColor)
    /\ resolution.style.maybe_frame = None
    /\ resolution.frame = Some(SliderThemeFrame)
    /\ resolution.style.maybe_frame_color = None
    /\ Unwrap(resolution.theme.maybe_slider).maybe_frame_color = None
    /\ resolution.frame_color = Some(resolution.theme.frame_color)
    /\ IsSome(resolution.label_color) /\ IsSome(resolution.label_font_size)

---------------------------------------------------------------------------
(* The reaction and the frame's outcome.                                   *)

\* The builder of the frame with its reaction replaced.
WithReaction(maybe_react) == [slider EXCEPT !.maybe_react = maybe_react]

\* C14: what update makes of a frame - the new interaction, whether a
\* replacement state is returned and what it holds, the state that persists,
\* and the returned position, dimensions and depth - is the same with and
\* without a reaction; a reaction that is called is handed the frame's new
\* value, determined before the call.
C14_ReactionDoesNotInterfere ==
    Updated =>
        /\ \A maybe_react \in { None, Some("reaction") } :
              LET other   == WithReaction(maybe_react)
                  new_int == NewInteraction(other, Prev, mouse)
              IN  /\ new_int = new_interaction
                  /\ MaybeNewState(other, Prev, new_int) = maybe_new_state
                  /\ Some(Returned(other, Theme)) = returned
        /\ state = Some(UnwrapOr(maybe_new_state, Prev))
        /\ \A i \in DOMAIN reacted : reacted[i] = new_value

\* A frame whose reaction is called and which returns no replacement state,
\* as the same frame without a reaction does.
C14_Witness ==
    /\ Updated
    /\ IsSome(slider.maybe_react) /\ Len(reacted) = 1
    /\ maybe_new_state = None
    /\ MaybeNewState(WithReaction(None), Prev, new_interaction) = None

---------------------------------------------------------------------------
(* The builder's setters.                                                  *)

\* The setters of the builder.
Setters ==
    { "react", "enabled", "color", "frame", "frame_color", "label",
      "label_color", "label_font_size", "horizontal_align", "vertical_align",
      "position", "width", "height" }

\* Arguments a caller hands each setter: two each, where the type has two.
Args(setter) ==
    CASE setter = "react"            -> { "reaction", "other reaction" }
      [] setter = "enabled"          -> BOOLEAN
      [] setter = "color"            -> { SetColor, SetFrameColor }
      [] setter = "frame"            -> { ThickFrame, ThemeFrameWidth }
      [] setter = "frame_color"      -> { SetFrameColor, SetColor }
      [] setter = "label"            -> Labels \cup { "b" }
      [] setter = "label_color"      -> { SetLabelColor, SetColor }
      [] setter = "label_font_size"  -> { SetFontSize, ThemeFontSizeMedium }
      [] setter = "horizontal_align" -> { SetHAlign, "Middle" }
      [] setter = "vertical_align"   -> { SetVAlign, "Middle" }
      [] setter = "position"         -> { SetPosition, DefaultPosition }
      [] setter = "width"            -> { NarrowDim, DefaultWidth }
      [] setter = "height"           -> { NarrowDim, DefaultHeight }

\* The fields of a builder, each under the name of the setter that owns it;
\* value, min, max and depth have no setter.
FieldsOf(self) ==
    [ react            |-> self.maybe_react,
      enabled          |-> self.enabled,
      color            |-> self.style.maybe_color,
      frame            |-> self.style.maybe_frame,
      frame_color      |-> self.style.maybe_frame_color,
      label            |-> self.maybe_label,
      label_color      |-> self.style.maybe_label_color,
      label_font_size  |-> self.style.maybe_label_font_size,
      horizontal_align |-> self.maybe_h_align,
      vertical_align   |-> self.maybe_v_align,
      position         |-> self.pos,
      width            |-> self.dim[1],
      height           |-> self.dim[2],
      value            |-> self.value,
      min              |-> self.min,
      max              |-> self.max,
      depth            |-> self.depth ]

\* What a setter's own field holds after it was handed arg.
Stored(setter, arg) ==
    IF setter \in { "enabled", "position", "width", "height" }
    THEN arg ELSE Some(arg)

\* C15: on every builder the setters make, each setter changes its own
\* field only, to what it was handed (width keeps the height and height the
\* width); two different setters give the same builder in either order; a
\* setter called twice leaves the value of the last call.
C15_SettersIndependent ==
    \A f \in Setters : \A a \in Args(f) :
        LET set == With(f, a, slider)
        IN  /\ FieldsOf(set) = [FieldsOf(slider) EXCEPT ![f] = Stored(f, a)]
            /\ \A g \in Setters \ { f } : \A b \in Args(g) :
                  With(g, b, set) = With(f, a, With(g, b, slider))
            /\ \A b \in Args(f) : With(f, b, set) = With(f, b, slider)

\* A builder on which width, height, enabled(false), color, position,
\* horizontal_align and react were all called.
C15_Witness ==
    /\ pc = "build"
    /\ slider.dim = << NarrowDim, NarrowDim >>
    /\ ~slider.enabled
    /\ slider.style.maybe_color = Some(SetColor)
    /\ slider.pos = SetPosition
    /\ IsSome(slider.maybe_h_align) /\ IsSome(slider.maybe_react)

---------------------------------------------------------------------------
(* The press that starts a drag.                                           *)

\* The interaction update is called with: the cache's, Normal the first time.
PersistedInteraction ==
    IF IsSome(state) THEN Unwrap(state).interaction ELSE "Normal"

\* The step is a call of update.
UpdateStep == pc = "build" /\ pc' = "updated"

\* C16: no update takes the interaction from Normal to Clicked. An update
\* that finds the interaction Normal and the button Down leaves it Normal,
\* pointer over the slider or not, so it stays Normal frame after frame
\* while the button stays Down; an update makes it Clicked only from
\* Highlighted or Clicked, and Highlighted only with the pointer over the
\* slider and the button Up.
C16_NoClickFromNormal ==
    [][ UpdateStep =>
          LET after == Unwrap(state').interaction
          IN  /\ PersistedInteraction = "Normal" => after # "Clicked"
              /\ (PersistedInteraction = "Normal" /\ mouse.left = "Down")
                    => after = "Normal"
              /\ after = "Clicked"
                    => PersistedInteraction \in { "Highlighted", "Clicked" }
              /\ after = "Highlighted" => (Over /\ mouse.left = "Up")
      ]_vars

\* The second frame of a press that began on a Normal slider: the button was
\* Down at the frame before, is still Down, the pointer is over the enabled
\* slider, and the interaction is still Normal.
C16_Witness ==
    /\ Updated /\ slider.enabled
    /\ last_left = "Down" /\ mouse.left = "Down" /\ Over
    /\ Prev.interaction = "Normal" /\ new_interaction = "Normal"

---------------------------------------------------------------------------
(* The state that persists.                                                *)

\* C17: after every update the state that persists - the replacement, or
\* the previous state when none is returned - holds the frame's new
\* interaction and the builder's value, min, max and label: the stored
\* value is the caller's, never the value computed from the pointer.
C17_PersistedMirrorsConfig ==
    Updated =>
        LET kept == Unwrap(state)
        IN  /\ kept = UnwrapOr(maybe_new_state, Prev)
            /\ kept.interaction = new_interaction
            /\ kept.value = slider.value
            /\ kept.min = slider.min /\ kept.max = slider.max
            /\ kept.maybe_label = slider.maybe_label

\* A frame of a drag that computes 1 from the pointer for a slider of value
\* 2, returns no replacement, and keeps 2 in the persisted state.
C17_Witness ==
    /\ Updated /\ ActiveDrag
    /\ maybe_new_state = None
    /\ slider.value = Int2F(2) /\ new_value = Int2F(1)
    /\ Unwrap(state).value = Int2F(2)
    /\ Unwrap(state).interaction = "Clicked"

---------------------------------------------------------------------------
(* The fill rectangle.                                                     *)

\* C18: the fill rectangle draw builds comes from the persisted state, the
\* frame and the dimensions alone: across the axis it spans the interior
\* and is centred; along the axis its extent is within [0, interior length]
\* and its offset is -(interior length - extent) / 2, for every persisted
\* value, also one outside [min, max].
C18_FillWithinInterior ==
    IsSome(element) =>
        LET pad    == Unwrap(element)
            inner  == InnerDim(slider.dim, FrameOf(slider))
            axis   == IF WiderThanTall THEN 1 ELSE 2
            cross  == IF WiderThanTall THEN 2 ELSE 1
            extent == pad.dim[axis]
        IN  /\ pad = Pad(Unwrap(state), slider.dim, FrameOf(slider))
            /\ pad.dim[cross] = inner[cross] /\ pad.rel_xy[cross] = Zero
            /\ FLe(Zero, extent) /\ FLe(extent, inner[axis])
            /\ FEq(pad.rel_xy[axis],
                   FNeg(FDiv(FSub(inner[axis], extent), Int2F(2))))

---------------------------------------------------------------------------
(* A value outside the range.                                              *)

\* The builder's value is outside [min, max].
OutOfRange == FLt(slider.value, slider.min) \/ FGt(slider.value, slider.max)

\* C19: in every frame without an active drag of a slider whose value is
\* outside [min, max] and that has a reaction, whatever the pointer does and
\* also when the slider is disabled, the reaction is called once with the
\* value clamped to the nearer bound.
C19_OutOfRangeReacts ==
    (Updated /\ OutOfRange /\ IsSome(slider.maybe_react) /\ ~ActiveDrag) =>
        reacted = << clamp(slider.value, slider.min, slider.max) >>

---------------------------------------------------------------------------
(* What update returns.                                                    *)

\* The alignment the specification names: the instance's when set, else the
\* theme's default.
AlignOr(maybe_align, default) ==
    IF IsSome(maybe_align) THEN Unwrap(maybe_align) ELSE default

\* C20: every update returns the screen position the layout gives the
\* requested position, the dimensions and the alignment (the instance's
\* when set, else the theme's default), with the builder's dimensions and
\* depth, whether or not it returns a replacement state.
C20_ReturnedLayout ==
    Updated =>
        /\ IsSome(returned)
        /\ Unwrap(returned).xy =
              get_xy(slider.pos, slider.dim,
                     AlignOr(slider.maybe_h_align, Theme.align.horizontal),
                     AlignOr(slider.maybe_v_align, Theme.align.vertical))
        /\ Unwrap(returned).dim = slider.dim
        /\ Unwrap(returned).depth = slider.depth

\* A frame that returns no replacement state, of a slider with a requested
\* position, its own horizontal alignment, the theme's vertical alignment
\* and a narrow width.
C20_Witness ==
    /\ Updated /\ maybe_new_state = None
    /\ slider.pos = SetPosition
    /\ slider.maybe_h_align = Some(SetHAlign) /\ slider.maybe_v_align = None
    /\ slider.dim = << NarrowDim, DefaultHeight >>
    /\ Unwrap(returned).xy.h_align = SetHAlign
    /\ Unwrap(returned).xy.v_align = Theme.align.vertical

=============================================================================
